---- MODULE Spec2Model ----
(***************************************************************************)
(* A model of the itty-bitty-news-bot curation and resolution pipeline:    *)
(*   - the Adilo featured-video resolver        (src/digest.py)            *)
(*   - the relevance classifiers                (src/main.py, digest.py)   *)
(*   - story clustering / digest de-duplication (src/main.py, digest.py)   *)
(*   - the duplicate guard and the seen state   (src/main.py)              *)
(*   - the run of main() of both scripts        (src/main.py, digest.py)   *)
(* Each component has its own specification (SpecResolver, SpecClassify,   *)
(* SpecCluster, SpecDedup, SpecRun); the variables of the other components *)
(* stay at their idle values.                                              *)
(*                                                                         *)
(* Abstractions.  A timestamp is a small positive integer, 0 stands for    *)
(* Python's None.  A text is the set of listed terms that occur in it as   *)
(* substrings; a title also records whether it has the "Name: subtitle"    *)
(* shape and whether it is written in upper case.  sha1 is taken to be     *)
(* injective.  A URL is a record naming what it points at.                 *)
(***************************************************************************)
EXTENDS Integers, Sequences, FiniteSets, TLC

VARIABLES
    \* ---- resolver: resolve_featured_adilo_watch_url (digest.py 443-505)
    FEATURED_VIDEO_FORCE_ID,     \* "" when not configured
    FEATURED_VIDEO_FALLBACK_ID,  \* "" when not configured
    api_configured,              \* ADILO_PUBLIC_KEY and ADILO_SECRET_KEY and ADILO_PROJECT_ID
    rpc,                         \* position in the resolver
    probe,                       \* index into PROBES of the variant being tried
    sample_ids,                  \* ids of the probe still to be looked up
    newest_dt_probe, newest_id_probe,
    best_dt, best_id,
    scrape_page, scrape_attempt, \* position in scrape_latest_adilo_id
    latest_id,                   \* what scrape_latest_adilo_id returned (NoId: None)
    result,                      \* the URL returned
    n_list, n_meta, n_scrape,    \* requests issued: list, metadata (of the probe under way), scrape
    faults,                      \* kinds of request that failed so far in this run
    dt_read_max,                 \* the latest upload_date _meta_upload_date returned in this run
    scraped,                     \* what the page scrape_latest_adilo_id returned from held
    \* ---- classifiers: hard_block (main.py 247-264), block_reason (digest.py 246-262)
    c_title, c_summary,          \* the text classified
    reason_main,                 \* what hard_block returned ("?" before the call)
    reason_digest,               \* what block_reason returned ("?" before the call)
    \* ---- clustering: cluster_items (main.py 392-403), de-duplication (digest.py 648-655)
    k_input,                     \* the candidate list handed over
    k_list,                      \* the list cluster_items was last applied to, then its output
    k_prev,                      \* the list before the last application
    k_runs,                      \* how often cluster_items was applied
    deduped,                     \* digest.py's deduped list (<<>> before it ran)
    \* ---- duplicate guard: is_duplicate_or_allowed_update, remember (main.py 406-428)
    seen_urls, seen_story_keys, seen_titles,   \* state["seen_urls"], ...
    all_urls, all_story_keys, all_titles,      \* everything ever appended to each list
    d_item,                      \* the item last checked (NoItem: none yet)
    d_result,                    \* what is_duplicate_or_allowed_update returned for it
    \* ---- a run of main(): main.py 522-575, digest.py 588-783
    script,                      \* "main.py" or "digest.py"
    MODE, SKIP_STATE_UPDATE,     \* main.py's configuration
    m_pc,                        \* position in main()
    disk, disk0,                 \* state.json as it is, and as it was when the run began
    feed_idx,                    \* index into FEEDS of the feed fetched next
    all_items,                   \* the items gathered from the feeds
    fetched,                     \* what each feed fetched so far came to, in order
    clustered,                   \* main.py: clustered; digest.py: ranked
    post_idx,                    \* index of the item (digest.py: message) posted next
    posted,                      \* main.py: posted; digest.py: messages delivered
    posted_items,                \* the items whose post succeeded, in order
    n_load, n_save, n_remember,  \* calls of load_state, save_state, remember
    \* ---- the digest's selection: digest.py 668-706
    sel_deduped,                 \* deduped
    sel_top_n, sel_max_per_source,   \* TOP_N, MAX_PER_SOURCE as configured
    sel_ranked,                  \* ranked
    sel_pc                       \* "input" before the selection, "ranked" after

rvars == <<FEATURED_VIDEO_FORCE_ID, FEATURED_VIDEO_FALLBACK_ID, api_configured,
           rpc, probe, sample_ids, newest_dt_probe, newest_id_probe,
           best_dt, best_id, scrape_page, scrape_attempt, latest_id, result,
           n_list, n_meta, n_scrape, faults, dt_read_max, scraped>>

cvars == <<c_title, c_summary, reason_main, reason_digest>>

kvars == <<k_input, k_list, k_prev, k_runs, deduped>>

dvars == <<seen_urls, seen_story_keys, seen_titles,
           all_urls, all_story_keys, all_titles, d_item, d_result>>

mvars == <<script, MODE, SKIP_STATE_UPDATE, m_pc, disk, disk0, feed_idx, all_items, fetched,
           clustered, post_idx, posted, posted_items, n_load, n_save, n_remember>>

svars == <<sel_deduped, sel_top_n, sel_max_per_source, sel_ranked, sel_pc>>

vars == <<rvars, cvars, kvars, dvars, mvars, svars>>

\* What the actions of one component leave alone.
notR == <<cvars, kvars, dvars, mvars, svars>>
notC == <<rvars, kvars, dvars, mvars, svars>>
notK == <<rvars, cvars, dvars, mvars, svars>>
notD == <<rvars, cvars, kvars, mvars, svars>>
notM == <<rvars, cvars, kvars, d_item, d_result, svars>>
notS == <<rvars, cvars, kvars, dvars, mvars>>

\* ------------------------------------------------------------------------
\* Bounds of the model
\* ------------------------------------------------------------------------
MaxDt == 4          \* timestamps are 1..MaxDt
MaxItems == 3       \* longest payload list the files endpoint answers with
SampleLimit == 2    \* stands for the 15 of items[:15] (digest.py 466)
MaxCluster == 3     \* longest candidate list handed to clustering
SeenLimit == 3      \* stands for the 5000 of the [-5000:] slices (main.py 426-428)
FuzzyWindow == 2    \* stands for the 500 of seen_titles[-500:] (main.py 416)
MaxRemember == 4    \* remember calls in one behaviour
NumFeeds == 3       \* the first NumFeeds entries of FEEDS are fetched
MAX_POSTS_PER_RUN == 2   \* stands for the default 12 (main.py 37)
MaxKept == 3        \* length of the list of kept items handed to the selection
MaxTopN == 3        \* DIGEST_TOP_N ranges over 0..MaxTopN
MaxCap == 2         \* DIGEST_MAX_PER_SOURCE ranges over 0..MaxCap

\* ------------------------------------------------------------------------
\* Small helpers
\* ------------------------------------------------------------------------
Min(a, b) == IF a <= b THEN a ELSE b

None == 0           \* Python's None where a timestamp is expected
NoId == ""          \* a missing or empty identifier

RECURSIVE SelectSeqIds(_)
\* [str(it.get("id")) for it in items if it.get("id")]
SelectSeqIds(s) ==
    IF s = <<>> THEN <<>>
    ELSE IF Head(s) = NoId THEN SelectSeqIds(Tail(s))
         ELSE <<Head(s)>> \o SelectSeqIds(Tail(s))

\* ------------------------------------------------------------------------
\* Texts and the relevance classifiers (main.py 61-282, digest.py 95-262)
\* ------------------------------------------------------------------------
\* The term lists, cut down to the terms of the vocabulary.  digest.py holds
\* the same terms in its lists of the same names (its entertainment list is
\* NON_GAMING_ENTERTAINMENT_BLOCK).
GAME_TERMS == {"xbox", "update"}
ADJACENT_TERMS == {"nvidia"}
LISTICLE_GUIDE_BLOCK == {"guide"}
EVERGREEN_BLOCK == {"timeline"}
COMMUNITY_OPINION_BLOCK == {"poll:"}
DEALS_BLOCK == {"sale"}
RUMOR_BLOCK == {"rumor"}
NON_GAME_ENTERTAINMENT_BLOCK == {"movie"}
UPDATE_KEYWORDS == {"update", "confirmed"}
\* Substrings the pattern (\$\d)|(\d+\s*%(\s*off)?) matches
MoneyShapes == {"$5"}

\* The terms a text of the model can contain.
Vocabulary ==
    GAME_TERMS \cup ADJACENT_TERMS \cup LISTICLE_GUIDE_BLOCK \cup EVERGREEN_BLOCK
    \cup COMMUNITY_OPINION_BLOCK \cup DEALS_BLOCK \cup RUMOR_BLOCK
    \cup NON_GAME_ENTERTAINMENT_BLOCK \cup UPDATE_KEYWORDS \cup MoneyShapes

\* A title: the terms in it, whether it holds ":" or " - ", whether it is at
\* least 12 characters long, and whether it is written in upper case.  A title
\* that holds the term "poll:" holds a colon.
TitlesOver(terms) ==
    {t \in [terms : SUBSET terms, colon : BOOLEAN, long : BOOLEAN, upper : BOOLEAN] :
        "poll:" \in t.terms => t.colon}

\* hay = f"{title} {summary}".lower()
Hay(title, summary) == title.terms \cup summary

\* contains_any(hay, terms): any(t.lower() in h for t in terms)
contains_any(hay, terms) == hay \cap terms # {}

\* has_money_signals(text)
has_money_signals(hay) == hay \cap MoneyShapes # {}

\* digest.py looks_like_a_specific_game_title(title)
looks_like_a_specific_game_title(title) ==
    IF ~title.long THEN FALSE ELSE title.colon

\* main.py game_or_adjacent(title, summary)
main_game_or_adjacent(title, summary) ==
    \/ contains_any(Hay(title, summary), GAME_TERMS)
    \/ contains_any(Hay(title, summary), ADJACENT_TERMS)

\* hard_block with the community check moved in front of the relevance gate.
hard_block_CommunityFirst(title, summary) ==
    LET hay == Hay(title, summary) IN
    IF contains_any(hay, COMMUNITY_OPINION_BLOCK) THEN "COMMUNITY/OPINION"
    ELSE IF ~main_game_or_adjacent(title, summary) THEN "NOT_GAME_OR_ADJACENT"
    ELSE IF contains_any(hay, LISTICLE_GUIDE_BLOCK) THEN "LISTICLE/GUIDE/REVIEW"
    ELSE IF contains_any(hay, EVERGREEN_BLOCK) THEN "EVERGREEN/SEO_REFRESH"
    ELSE IF contains_any(hay, DEALS_BLOCK) \/ has_money_signals(hay)
         THEN "DEALS/SHOPPING"
    ELSE IF contains_any(hay, RUMOR_BLOCK) THEN "RUMOR/SPECULATION"
    ELSE ""

\* main.py hard_block(title, summary)
hard_block(title, summary) ==
    LET hay == Hay(title, summary) IN
    IF ~main_game_or_adjacent(title, summary) THEN "NOT_GAME_OR_ADJACENT"
    ELSE IF contains_any(hay, COMMUNITY_OPINION_BLOCK) THEN "COMMUNITY/OPINION"
    ELSE IF contains_any(hay, LISTICLE_GUIDE_BLOCK) THEN "LISTICLE/GUIDE/REVIEW"
    ELSE IF contains_any(hay, EVERGREEN_BLOCK) THEN "EVERGREEN/SEO_REFRESH"
    ELSE IF contains_any(hay, DEALS_BLOCK) \/ has_money_signals(hay)
         THEN "DEALS/SHOPPING"
    ELSE IF contains_any(hay, RUMOR_BLOCK) THEN "RUMOR/SPECULATION"
    ELSE IF contains_any(hay, NON_GAME_ENTERTAINMENT_BLOCK)
            /\ ~main_game_or_adjacent(title, summary)
         THEN "NON_GAME_ENTERTAINMENT"
    ELSE ""

\* digest.py game_or_adjacent(title, summary)
digest_game_or_adjacent(title, summary) ==
    LET hay == Hay(title, summary) IN
    IF contains_any(hay, NON_GAME_ENTERTAINMENT_BLOCK) THEN FALSE
    ELSE IF contains_any(hay, GAME_TERMS) \/ contains_any(hay, ADJACENT_TERMS) THEN TRUE
    ELSE IF looks_like_a_specific_game_title(title) THEN TRUE
    ELSE FALSE

\* block_reason with the rumor check moved in front of the deals check.
block_reason_RumorBeforeDeals(title, summary) ==
    LET hay == Hay(title, summary) IN
    IF contains_any(hay, NON_GAME_ENTERTAINMENT_BLOCK) THEN "NON_GAMING_ENTERTAINMENT"
    ELSE IF ~digest_game_or_adjacent(title, summary) THEN "NOT_GAME_OR_ADJACENT"
    ELSE IF contains_any(hay, COMMUNITY_OPINION_BLOCK) THEN "COMMUNITY/OPINION"
    ELSE IF contains_any(hay, LISTICLE_GUIDE_BLOCK) THEN "LISTICLE/GUIDE/REVIEW"
    ELSE IF contains_any(hay, EVERGREEN_BLOCK) THEN "EVERGREEN/SEO_REFRESH"
    ELSE IF contains_any(hay, RUMOR_BLOCK) THEN "RUMOR/SPECULATION"
    ELSE IF contains_any(hay, DEALS_BLOCK) \/ has_money_signals(hay)
         THEN "DEALS/SHOPPING"
    ELSE ""

\* digest.py block_reason(title, summary)
block_reason(title, summary) ==
    LET hay == Hay(title, summary) IN
    IF contains_any(hay, NON_GAME_ENTERTAINMENT_BLOCK) THEN "NON_GAMING_ENTERTAINMENT"
    ELSE IF ~digest_game_or_adjacent(title, summary) THEN "NOT_GAME_OR_ADJACENT"
    ELSE IF contains_any(hay, COMMUNITY_OPINION_BLOCK) THEN "COMMUNITY/OPINION"
    ELSE IF contains_any(hay, LISTICLE_GUIDE_BLOCK) THEN "LISTICLE/GUIDE/REVIEW"
    ELSE IF contains_any(hay, EVERGREEN_BLOCK) THEN "EVERGREEN/SEO_REFRESH"
    ELSE IF contains_any(hay, DEALS_BLOCK) \/ has_money_signals(hay)
         THEN "DEALS/SHOPPING"
    ELSE IF contains_any(hay, RUMOR_BLOCK) THEN "RUMOR/SPECULATION"
    ELSE ""

\* The texts classified: titles over the whole vocabulary, written in lower
\* case, with a summary that adds a game term, an entertainment term or nothing.
ClassifyTitles == {t \in TitlesOver(Vocabulary \ {"confirmed"}) : ~t.upper}
ClassifySummaries == SUBSET {"xbox", "movie"}
NotClassified == "?"

ClassifyInit ==
    /\ c_title \in ClassifyTitles
    /\ c_summary \in ClassifySummaries
    /\ reason_main = NotClassified
    /\ reason_digest = NotClassified

ClassifyIdle ==
    /\ c_title = [terms |-> {}, colon |-> FALSE, long |-> FALSE, upper |-> FALSE]
    /\ c_summary = {}
    /\ reason_main = NotClassified
    /\ reason_digest = NotClassified

\* main.py 543: r = hard_block(it.title, it.summary)
ClassifyMain ==
    /\ reason_main = NotClassified
    /\ reason_main' = hard_block(c_title, c_summary)
    /\ UNCHANGED <<c_title, c_summary, reason_digest>>
    /\ UNCHANGED notC

\* digest.py 644: block_reason(it["title"], it["summary"])
ClassifyDigest ==
    /\ reason_digest = NotClassified
    /\ reason_digest' = block_reason(c_title, c_summary)
    /\ UNCHANGED <<c_title, c_summary, reason_main>>
    /\ UNCHANGED notC

ClassifyNext ==
    \/ ClassifyMain
    \/ ClassifyDigest

\* ------------------------------------------------------------------------
\* Story clustering (main.py 285-290, 392-403; digest.py 264-265, 648-655)
\* ------------------------------------------------------------------------
SOURCE_PRIORITY == <<"IGN", "GameSpot", "VGC", "Gematsu",
                     "Polygon", "Nintendo Life", "PC Gamer", "Blue's News">>

\* make_story_key(title): lower-case, drop URLs and punctuation, collapse
\* white space, sha1.  What is left of a title is its words.
make_story_key(title) == [sha1 |-> title.terms]

\* digest.py normalize_title_key(title): lower-case, drop punctuation,
\* collapse white space.
normalize_title_key(title) == [key |-> title.terms]

\* priority.get(x.source, 999) with priority = {name: i for i, name in enumerate(...)}
PriorityIndex(source) ==
    IF \E i \in 1..Len(SOURCE_PRIORITY) : SOURCE_PRIORITY[i] = source
    THEN (CHOOSE i \in 1..Len(SOURCE_PRIORITY) : SOURCE_PRIORITY[i] = source) - 1
    ELSE 999

\* A sort key that looks at the timestamp alone.
PickKeyLess_NewestOnly(a, b) == (0 - a.published_at) < (0 - b.published_at)

\* The sort key of pick_best_source, compared as Python compares tuples:
\* (priority.get(x.source, 999), -x.published_at.timestamp())
PickKeyLess(a, b) ==
    \/ PriorityIndex(a.source) < PriorityIndex(b.source)
    \/ /\ PriorityIndex(a.source) = PriorityIndex(b.source)
       /\ (0 - a.published_at) < (0 - b.published_at)

RECURSIVE InsertByPickKey(_, _)
\* One step of a stable sort: x goes after every element that is not greater.
InsertByPickKey(x, sorted) ==
    IF sorted = <<>> THEN <<x>>
    ELSE IF PickKeyLess(x, Head(sorted)) THEN <<x>> \o sorted
         ELSE <<Head(sorted)>> \o InsertByPickKey(x, Tail(sorted))

RECURSIVE SortByPickKey(_)
\* sorted(cluster, key=...): Python's sort is stable
SortByPickKey(s) ==
    IF s = <<>> THEN <<>>
    ELSE InsertByPickKey(s[Len(s)], SortByPickKey(SubSeq(s, 1, Len(s) - 1)))

\* pick_best_source(cluster)
pick_best_source(cluster) == SortByPickKey(cluster)[1]

RECURSIVE InsertByPublishedDesc(_, _)
InsertByPublishedDesc(x, sorted) ==
    IF sorted = <<>> THEN <<x>>
    ELSE IF x.published_at > Head(sorted).published_at THEN <<x>> \o sorted
         ELSE <<Head(sorted)>> \o InsertByPublishedDesc(x, Tail(sorted))

RECURSIVE SortByPublishedDesc(_)
\* sort(key=lambda x: x.published_at, reverse=True): stable, newest first,
\* equal timestamps keep their order
SortByPublishedDesc(s) ==
    IF s = <<>> THEN <<>>
    ELSE InsertByPublishedDesc(s[Len(s)], SortByPublishedDesc(SubSeq(s, 1, Len(s) - 1)))

RECURSIVE InsertByPublishedAsc(_, _)
InsertByPublishedAsc(x, sorted) ==
    IF sorted = <<>> THEN <<x>>
    ELSE IF x.published_at < Head(sorted).published_at THEN <<x>> \o sorted
         ELSE <<Head(sorted)>> \o InsertByPublishedAsc(x, Tail(sorted))

RECURSIVE SortByPublishedAsc(_)
SortByPublishedAsc(s) ==
    IF s = <<>> THEN <<>>
    ELSE InsertByPublishedAsc(s[Len(s)], SortByPublishedAsc(SubSeq(s, 1, Len(s) - 1)))

Reverse(s) == [i \in 1..Len(s) |-> s[Len(s) + 1 - i]]

RECURSIVE BucketKeys(_)
\* The keys of buckets in the order a dict holds them: by first insertion.
BucketKeys(items) ==
    IF items = <<>> THEN <<>>
    ELSE LET rest == BucketKeys(SubSeq(items, 1, Len(items) - 1))
             k == make_story_key(items[Len(items)].title)
         IN IF \E i \in 1..Len(rest) : rest[i] = k THEN rest ELSE Append(rest, k)

\* buckets.setdefault(it.story_key, []).append(it): the bucket of one key
Bucket(items, k) ==
    SelectSeq(items, LAMBDA it : make_story_key(it.title) = k)

\* chosen = [pick_best_source(group) for group in buckets.values()]
Chosen(items) ==
    [i \in 1..Len(BucketKeys(items)) |->
        pick_best_source(Bucket(items, BucketKeys(items)[i]))]

\* cluster_items that sorts oldest first and then reverses the list.
cluster_items_ReverseAfterSort(items) == Reverse(SortByPublishedAsc(Chosen(items)))

\* cluster_items(items)
cluster_items(items) == SortByPublishedDesc(Chosen(items))

RECURSIVE DedupFirstSeen(_)
\* digest.py 648-655: keep the first item of every normalized title
DedupFirstSeen(s) ==
    IF s = <<>> THEN <<>>
    ELSE LET rest == DedupFirstSeen(SubSeq(s, 1, Len(s) - 1))
             it == s[Len(s)]
         IN IF \E i \in 1..Len(rest) :
                  normalize_title_key(rest[i].title) = normalize_title_key(it.title)
            THEN rest
            ELSE Append(rest, it)

\* digest.py 648-655: de-duplicate the kept items, newest first
DigestDedup(kept) == DedupFirstSeen(SortByPublishedDesc(kept))

\* The candidates clustered: three sources (one of them not in
\* SOURCE_PRIORITY), two stories (one of them in two spellings), timestamps.
ClusterSources == {"IGN", "Blue's News", "Kotaku"}
ClusterTitles ==
    {[terms |-> {"xbox"}, colon |-> FALSE, long |-> FALSE, upper |-> FALSE],
     [terms |-> {"xbox"}, colon |-> FALSE, long |-> FALSE, upper |-> TRUE],
     [terms |-> {"nvidia"}, colon |-> FALSE, long |-> FALSE, upper |-> FALSE]}
ClusterStamps == 1..2
ClusterItems ==
    [source : ClusterSources, title : ClusterTitles, published_at : ClusterStamps]
ClusterLists == UNION {[1..n -> ClusterItems] : n \in 0..MaxCluster}

ClusterInit ==
    /\ k_input \in ClusterLists
    /\ k_list = k_input
    /\ k_prev = <<>>
    /\ k_runs = 0
    /\ deduped = <<>>

ClusterIdle ==
    /\ k_input = <<>>
    /\ k_list = <<>>
    /\ k_prev = <<>>
    /\ k_runs = -1
    /\ deduped = <<>>

\* main.py 549: clustered = cluster_items(filtered); applied once more to its
\* own output.
ClusterApply ==
    /\ k_runs \in {0, 1}
    /\ k_list' = cluster_items(k_list)
    /\ k_prev' = k_list
    /\ k_runs' = k_runs + 1
    /\ UNCHANGED <<k_input, deduped>>
    /\ UNCHANGED notK

\* digest.py 648-655 on the same candidates
DigestDedupApply ==
    /\ k_runs = 0
    /\ k_input # <<>>
    /\ deduped = <<>>
    /\ deduped' = DigestDedup(k_input)
    /\ UNCHANGED <<k_input, k_list, k_prev, k_runs>>
    /\ UNCHANGED notK

ClusterNext ==
    \/ ClusterApply
    \/ DigestDedupApply

\* ------------------------------------------------------------------------
\* The duplicate guard and the seen state (main.py 280-282, 406-428)
\* ------------------------------------------------------------------------
TITLE_FUZZY_THRESHOLD == 92

\* s[-n:] for n > 0
LastN(s, n) == IF Len(s) <= n THEN s ELSE SubSeq(s, Len(s) - n + 1, Len(s))

\* s[:n]
FirstN(s, n) == IF Len(s) <= n THEN s ELSE SubSeq(s, 1, n)

\* x in lst
InList(x, lst) == \E i \in 1..Len(lst) : lst[i] = x

\* re.sub(r"\s+", " ", item.title.strip().lower()): case goes, punctuation stays
title_norm(title) == [terms |-> title.terms, colon |-> title.colon, long |-> title.long]

\* Words of one character: a long title with such a word more or less is
\* nearly the same string.
ShortWords == {"2"}

\* fuzz.ratio(a, b) of two normalized titles: 100 for equal strings, in the
\* nineties for the same words with different punctuation and for long
\* titles that differ in a one-character word, low otherwise.
fuzz_ratio(a, b) ==
    IF a = b THEN 100
    ELSE IF a.terms = b.terms THEN 96
    ELSE IF a.long /\ b.long /\ a.terms \ ShortWords = b.terms \ ShortWords THEN 94
    ELSE 40

\* contains_update_keyword that reads the title only.
contains_update_keyword_TitleOnly(title, summary) ==
    contains_any(title.terms, UPDATE_KEYWORDS)

\* contains_update_keyword(title, summary)
contains_update_keyword(title, summary) ==
    contains_any(Hay(title, summary), UPDATE_KEYWORDS)

\* is_duplicate_or_allowed_update in which an update keyword overrides every rule.
is_duplicate_UpdateOverridesAll(item, urls, keys, titles) ==
    LET is_update == contains_update_keyword(item.title, item.summary) IN
    IF InList(item.url, urls) /\ ~is_update THEN TRUE
    ELSE IF InList(make_story_key(item.title), keys) /\ ~is_update THEN TRUE
    ELSE \E i \in 1..Len(LastN(titles, FuzzyWindow)) :
            /\ fuzz_ratio(title_norm(item.title), LastN(titles, FuzzyWindow)[i])
                   >= TITLE_FUZZY_THRESHOLD
            /\ ~is_update

\* A duplicate guard without the URL rule: story key and fuzzy title only.
is_duplicate_KeyAndTitleOnly(item, urls, keys, titles) ==
    LET is_update == contains_update_keyword(item.title, item.summary) IN
    IF InList(make_story_key(item.title), keys) /\ ~is_update THEN TRUE
    ELSE \E i \in 1..Len(LastN(titles, FuzzyWindow)) :
            /\ fuzz_ratio(title_norm(item.title), LastN(titles, FuzzyWindow)[i])
                   >= TITLE_FUZZY_THRESHOLD
            /\ ~is_update

\* is_duplicate_or_allowed_update(item, state): the fuzzy rule reads
\* state["seen_titles"][-500:], here the last FuzzyWindow titles
is_duplicate_or_allowed_update(item, urls, keys, titles) ==
    LET is_update == contains_update_keyword(item.title, item.summary) IN
    IF InList(item.url, urls) THEN TRUE
    ELSE IF InList(make_story_key(item.title), keys) /\ ~is_update THEN TRUE
    ELSE \E i \in 1..Len(LastN(titles, FuzzyWindow)) :
            /\ fuzz_ratio(title_norm(item.title), LastN(titles, FuzzyWindow)[i])
                   >= TITLE_FUZZY_THRESHOLD
            /\ ~is_update

\* A slice that keeps the oldest entries.
KeepRecent_Oldest(lst) == FirstN(lst, SeenLimit)

\* state[...] = state[...][-5000:]
KeepRecent(lst) == LastN(lst, SeenLimit)

\* The items checked and remembered: two URLs, one story in two punctuations,
\* the same story with an update keyword in the title, a headline one short
\* word away from it, a summary with an update keyword or without.
DedupUrls == {"https://ign.example/a", "https://vgc.example/b"}
DedupTitles ==
    {[terms |-> {"xbox"}, colon |-> FALSE, long |-> TRUE, upper |-> FALSE],
     [terms |-> {"xbox"}, colon |-> TRUE, long |-> TRUE, upper |-> FALSE],
     [terms |-> {"xbox", "update"}, colon |-> FALSE, long |-> TRUE, upper |-> FALSE],
     [terms |-> {"xbox", "2"}, colon |-> FALSE, long |-> TRUE, upper |-> FALSE]}
DedupSummaries == {{}, {"confirmed"}}
DedupItems == [url : DedupUrls, title : DedupTitles, summary : DedupSummaries]
NoItem == [url |-> "", title |-> [terms |-> {}, colon |-> FALSE, long |-> FALSE,
                                   upper |-> FALSE], summary |-> {}]

\* load_state() when there is no state file
DedupInit ==
    /\ seen_urls = <<>> /\ seen_story_keys = <<>> /\ seen_titles = <<>>
    /\ all_urls = <<>> /\ all_story_keys = <<>> /\ all_titles = <<>>
    /\ d_item = NoItem
    /\ d_result = FALSE

DedupIdle == DedupInit

\* A remember that records the URL and the title but not the story key.
Remember_KeyUntracked(item) ==
    /\ seen_urls' = KeepRecent(Append(seen_urls, item.url))
    /\ seen_titles' = KeepRecent(Append(seen_titles, title_norm(item.title)))
    /\ all_urls' = Append(all_urls, item.url)
    /\ all_titles' = Append(all_titles, title_norm(item.title))
    /\ UNCHANGED <<seen_story_keys, all_story_keys>>

\* remember(item, state)
Remember(item) ==
    /\ seen_urls' = KeepRecent(Append(seen_urls, item.url))
    /\ seen_story_keys' = KeepRecent(Append(seen_story_keys, make_story_key(item.title)))
    /\ seen_titles' = KeepRecent(Append(seen_titles, title_norm(item.title)))
    /\ all_urls' = Append(all_urls, item.url)
    /\ all_story_keys' = Append(all_story_keys, make_story_key(item.title))
    /\ all_titles' = Append(all_titles, title_norm(item.title))

\* A call of remember; the summary of the item plays no part in it.
RememberCall ==
    /\ d_item = NoItem
    /\ Len(all_urls) < MaxRemember
    /\ \E item \in DedupItems :
         /\ item.summary = {}
         /\ Remember(item)
    /\ UNCHANGED <<d_item, d_result>>
    /\ UNCHANGED notD

\* A call of is_duplicate_or_allowed_update on the state as it stands.
CheckCall ==
    /\ d_item = NoItem
    /\ \E item \in DedupItems :
         /\ d_item' = item
         /\ d_result' = is_duplicate_or_allowed_update(item, seen_urls,
                                                       seen_story_keys, seen_titles)
    /\ UNCHANGED <<seen_urls, seen_story_keys, seen_titles,
                   all_urls, all_story_keys, all_titles>>
    /\ UNCHANGED notD

DedupNext ==
    \/ RememberCall
    \/ CheckCall

\* ------------------------------------------------------------------------
\* The digest's ranking and selection (digest.py 657-706)
\* ------------------------------------------------------------------------
WINDOW_HOURS == 24
TOP_N == 5
MAX_PER_SOURCE == 1
\* digest.py NEWS_HINTS, cut down to the vocabulary
NEWS_HINTS == {"update"}

\* utcnow(), in hours; timestamps of feed entries are whole hours
RunNow == WINDOW_HOURS + WINDOW_HOURS

Max(a, b) == IF a >= b THEN a ELSE b

\* score_item(item), in tenths:
\* recency_score + source_score + hint - blues_penalty
score_item(item) ==
    LET p == PriorityIndex(item.source)
        age_hours == Max(0, RunNow - item.published_at)
        recency_score == Max(0, 360 - 10 * age_hours)
        source_score == Max(0, 100 - p * 8)
        hint == IF contains_any(Hay(item.title, item.summary), NEWS_HINTS)
                THEN 80 ELSE 0
        blues_penalty == IF item.source = "Blue's News" THEN 25 ELSE 0
    IN recency_score + source_score + hint - blues_penalty

RECURSIVE InsertByScoreDesc(_, _)
InsertByScoreDesc(x, sorted) ==
    IF sorted = <<>> THEN <<x>>
    ELSE IF score_item(x) > score_item(Head(sorted)) THEN <<x>> \o sorted
         ELSE <<Head(sorted)>> \o InsertByScoreDesc(x, Tail(sorted))

RECURSIVE SortByScoreDesc(_)
\* sorted(..., key=score_item, reverse=True): stable, equal scores keep their order
SortByScoreDesc(s) ==
    IF s = <<>> THEN <<>>
    ELSE InsertByScoreDesc(s[Len(s)], SortByScoreDesc(SubSeq(s, 1, Len(s) - 1)))

\* by_source[s] after by_source[s].sort(key=score_item, reverse=True)
BySource(items, s) ==
    SortByScoreDesc(SelectSeq(items, LAMBDA it : it.source = s))

\* k in used, for the items picked so far
KeyUsed(picked, it) ==
    \E i \in 1..Len(picked) :
        normalize_title_key(picked[i].title) = normalize_title_key(it.title)

\* counts.get(s, 0), for the items picked so far
CountOf(picked, s) == Cardinality({i \in 1..Len(picked) : picked[i].source = s})

RECURSIVE Pass1_NoBreak(_, _, _, _)
\* Pass 1 without its "if len(picked) >= TOP_N: break".
Pass1_NoBreak(i, picked, items, top_n) ==
    IF i > Len(SOURCE_PRIORITY) THEN picked
    ELSE LET mine == SortByScoreDesc(SelectSeq(items,
                         LAMBDA it : it.source = SOURCE_PRIORITY[i])) IN
         IF mine = <<>> \/ KeyUsed(picked, mine[1])
         THEN Pass1_NoBreak(i + 1, picked, items, top_n)
         ELSE Pass1_NoBreak(i + 1, Append(picked, mine[1]), items, top_n)

RECURSIVE Pass1(_, _, _, _)
\* digest.py 678-689: the best item of every source, in priority order
Pass1(i, picked, items, top_n) ==
    IF i > Len(SOURCE_PRIORITY) \/ Len(picked) >= top_n THEN picked
    ELSE LET mine == BySource(items, SOURCE_PRIORITY[i]) IN
         IF mine = <<>> \/ KeyUsed(picked, mine[1])
         THEN Pass1(i + 1, picked, items, top_n)
         ELSE Pass1(i + 1, Append(picked, mine[1]), items, top_n)

RECURSIVE Pass2(_, _, _, _)
\* digest.py 693-704: fill by score under the per-source cap
Pass2(remaining, picked, top_n, max_per_source) ==
    IF remaining = <<>> \/ Len(picked) >= top_n THEN picked
    ELSE LET it == Head(remaining) IN
         IF CountOf(picked, it.source) >= max_per_source \/ KeyUsed(picked, it)
         THEN Pass2(Tail(remaining), picked, top_n, max_per_source)
         ELSE Pass2(Tail(remaining), Append(picked, it), top_n, max_per_source)

\* digest.py 674-704: picked
Picked(items, top_n, max_per_source) ==
    LET first == Pass1(1, <<>>, items, top_n) IN
    IF Len(first) < top_n
    THEN Pass2(SortByScoreDesc(items), first, top_n, max_per_source)
    ELSE first

\* digest.py 706: ranked
Ranked(items, top_n, max_per_source) ==
    SortByScoreDesc(Picked(items, top_n, max_per_source))

\* digest.py 640-646: kept
Kept(items) ==
    SelectSeq(items, LAMBDA it :
        /\ ~(it.published_at < RunNow - WINDOW_HOURS)
        /\ block_reason(it.title, it.summary) = "")

\* The selection on its own, for every configuration of TOP_N and
\* MAX_PER_SOURCE: three sources (one of them not in SOURCE_PRIORITY), three
\* stories, two ages.  The ages are four hours apart, which is what five
\* places of SOURCE_PRIORITY are worth in score_item: an older IGN item and a
\* newer Nintendo Life item have the same score.
SelectSources == {"IGN", "Nintendo Life", "Kotaku"}
SelectTitles ==
    {[terms |-> {"xbox"}, colon |-> FALSE, long |-> TRUE, upper |-> FALSE],
     [terms |-> {"nvidia"}, colon |-> FALSE, long |-> TRUE, upper |-> FALSE],
     [terms |-> {"xbox", "update"}, colon |-> FALSE, long |-> TRUE, upper |-> FALSE]}
SelectStamps == {RunNow - 2, RunNow - 6}
SelectItems ==
    [source : SelectSources, title : SelectTitles,
     published_at : SelectStamps, summary : {{}}]
KeptLists == UNION {[1..n -> SelectItems] : n \in 0..MaxKept}

\* digest.py 648-655: the lists deduped can be
DedupedLists == {DigestDedup(kept) : kept \in KeptLists}

SelectInit ==
    /\ sel_deduped \in DedupedLists
    /\ sel_top_n \in 0..MaxTopN
    /\ sel_max_per_source \in 0..MaxCap
    /\ sel_ranked = <<>>
    /\ sel_pc = "input"

SelectIdle ==
    /\ sel_deduped = <<>>
    /\ sel_top_n = 0
    /\ sel_max_per_source = 0
    /\ sel_ranked = <<>>
    /\ sel_pc = "idle"

\* digest.py 668-706: by_source, pass 1, pass 2, the final sort
SelectApply ==
    /\ sel_pc = "input"
    /\ sel_ranked' = Ranked(sel_deduped, sel_top_n, sel_max_per_source)
    /\ sel_pc' = "ranked"
    /\ UNCHANGED <<sel_deduped, sel_top_n, sel_max_per_source>>
    /\ UNCHANGED notS

SelectNext == SelectApply

\* ------------------------------------------------------------------------
\* A run of main() (main.py 522-575, digest.py 588-783)
\* ------------------------------------------------------------------------
FEEDS == <<"IGN", "GameSpot", "Blue's News", "VGC", "Gematsu",
           "Polygon", "Nintendo Life", "PC Gamer">>

\* The links of feed entries: two pages, one of them also linked with a
\* tracking parameter; "" is an entry without a link.
RunLinks == {[page |-> "/a", utm |-> FALSE], [page |-> "/b", utm |-> FALSE]}
TrackedLink == [page |-> "/a", utm |-> TRUE]
NoLink == [page |-> "", utm |-> FALSE]

\* normalize_url(url): tracking parameters and the fragment go
normalize_url(link) == [page |-> link.page, utm |-> FALSE]

\* Three headlines that pass the filters, one of them with an update keyword.
RunTitles ==
    {[terms |-> {"xbox"}, colon |-> FALSE, long |-> TRUE, upper |-> FALSE],
     [terms |-> {"xbox", "update"}, colon |-> FALSE, long |-> TRUE, upper |-> FALSE],
     [terms |-> {"zelda"}, colon |-> FALSE, long |-> TRUE, upper |-> FALSE]}
\* A title that no filter lets through.
BlockedTitle == [terms |-> {"movie"}, colon |-> FALSE, long |-> TRUE, upper |-> FALSE]
RunStamps == {RunNow - 2}

\* What feedparser hands over for one entry.
FeedEntries ==
    [title : RunTitles, link : RunLinks, published_at : RunStamps]
    \cup [title : {[terms |-> {"xbox"}, colon |-> FALSE, long |-> TRUE, upper |-> FALSE]},
          link : {TrackedLink}, published_at : RunStamps]
    \cup [title : {BlockedTitle}, link : {[page |-> "/b", utm |-> FALSE]},
          published_at : {RunNow - 30}]
    \cup [title : {BlockedTitle}, link : {NoLink}, published_at : RunStamps]

\* What fetching one feed comes to: requests.get raises, raise_for_status
\* raises, or the feed parses to its entries.
FeedResponses ==
    [t : {"exception", "http_error"}, entries : {<<>>}]
    \cup [t : {"ok"}, entries : {<<>>} \cup {<<e>> : e \in FeedEntries}]

\* main.py 363-387, digest.py 604-636: the items of a parsed feed; an entry
\* without a title or a link is skipped
ItemsOfFeed(feed_name, entries) ==
    LET usable == SelectSeq(entries, LAMBDA e : e.link # NoLink) IN
    [i \in 1..Len(usable) |->
        [source |-> feed_name,
         title |-> usable[i].title,
         url |-> normalize_url(usable[i].link),
         published_at |-> usable[i].published_at,
         summary |-> {}]]

\* A failed feed that takes the items gathered so far with it.
GatherFeed_LosesGathered(items, feed_name, resp) ==
    IF resp.t = "ok" THEN items \o ItemsOfFeed(feed_name, resp.entries) ELSE <<>>

\* main.py 527-530, digest.py 599-638: the try/except around one feed; the
\* items of a feed that answers are added, a failure adds nothing
GatherFeed(items, feed_name, resp) ==
    IF resp.t = "ok" THEN items \o ItemsOfFeed(feed_name, resp.entries) ELSE items

\* A story of earlier runs that no feed carries any more.
OldLink == [page |-> "/old", utm |-> FALSE]
OldTitle == [terms |-> {"nvidia"}, colon |-> FALSE, long |-> TRUE, upper |-> FALSE]

\* state.json: absent (load_state then answers with empty lists), or as an
\* earlier run saved it: with one story, or full (as many entries as remember
\* retains), the story that is still in the feeds being its oldest entry.
EmptyState == [seen_urls |-> <<>>, seen_titles |-> <<>>, seen_story_keys |-> <<>>]
SavedStates ==
    {EmptyState}
    \cup {[seen_urls |-> <<normalize_url(l)>> \o [i \in 1..n |-> OldLink],
           seen_titles |-> <<title_norm(t)>> \o [i \in 1..n |-> title_norm(OldTitle)],
           seen_story_keys |-> <<make_story_key(t)>> \o [i \in 1..n |-> make_story_key(OldTitle)]] :
            l \in {[page |-> "/a", utm |-> FALSE]},
            t \in {[terms |-> {"xbox"}, colon |-> FALSE, long |-> TRUE, upper |-> FALSE]},
            n \in {0, SeenLimit - 1}}

\* A run that updates the state whatever SKIP_STATE_UPDATE says.
StateUpdatesEnabled_SkipIgnored(mode, skip) == mode # "DIGEST"

\* MODE != "DIGEST" and not SKIP_STATE_UPDATE (main.py 568, 574)
StateUpdatesEnabled(mode, skip) == mode # "DIGEST" /\ ~skip

RunInit ==
    /\ script \in {"main.py", "digest.py"}
    /\ MODE \in {"RAW", "DIGEST"}
    /\ SKIP_STATE_UPDATE \in BOOLEAN
    /\ script = "digest.py" => (MODE = "RAW" /\ SKIP_STATE_UPDATE = FALSE)
    /\ m_pc = "start"
    /\ disk \in SavedStates
    /\ disk0 = disk
    /\ feed_idx = 1
    /\ all_items = <<>>
    /\ fetched = <<>>
    /\ clustered = <<>>
    /\ post_idx = 0
    /\ posted = 0
    /\ posted_items = <<>>
    /\ n_load = 0 /\ n_save = 0 /\ n_remember = 0

RunIdle ==
    /\ script = "none"
    /\ MODE = "RAW"
    /\ SKIP_STATE_UPDATE = FALSE
    /\ m_pc = "idle"
    /\ disk = EmptyState
    /\ disk0 = EmptyState
    /\ feed_idx = 0
    /\ all_items = <<>>
    /\ fetched = <<>>
    /\ clustered = <<>>
    /\ post_idx = 0
    /\ posted = 0
    /\ posted_items = <<>>
    /\ n_load = 0 /\ n_save = 0 /\ n_remember = 0

runcfg == <<script, MODE, SKIP_STATE_UPDATE, disk0>>
seenvars == <<seen_urls, seen_story_keys, seen_titles,
              all_urls, all_story_keys, all_titles>>

\* main.py 523: state = load_state()
MainLoad ==
    /\ script = "main.py"
    /\ m_pc = "start"
    /\ seen_urls' = disk.seen_urls
    /\ seen_story_keys' = disk.seen_story_keys
    /\ seen_titles' = disk.seen_titles
    /\ all_urls' = disk.seen_urls
    /\ all_story_keys' = disk.seen_story_keys
    /\ all_titles' = disk.seen_titles
    /\ n_load' = n_load + 1
    /\ m_pc' = "fetch"
    /\ UNCHANGED <<runcfg, disk, feed_idx, all_items, fetched, clustered, post_idx, posted,
                   posted_items, n_save, n_remember>>
    /\ UNCHANGED notM

\* digest.py 589-595: the schedule guard; outside the posting window a
\* scheduled run returns without posting
DigestGuard ==
    /\ script = "digest.py"
    /\ m_pc = "start"
    /\ \E scheduled \in BOOLEAN, should_run_now \in BOOLEAN :
         m_pc' = IF scheduled /\ ~should_run_now THEN "done" ELSE "fetch"
    /\ UNCHANGED <<runcfg, disk, feed_idx, all_items, fetched, clustered, post_idx, posted,
                   posted_items, n_load, n_save, n_remember>>
    /\ UNCHANGED seenvars
    /\ UNCHANGED notM

\* main.py 526-530, digest.py 598-638: one feed of the loop over FEEDS; a
\* failure is logged and the loop goes on
FetchFeed ==
    /\ m_pc = "fetch"
    /\ feed_idx <= NumFeeds
    /\ \E resp \in FeedResponses :
         /\ all_items' = GatherFeed(all_items, FEEDS[feed_idx], resp)
         /\ fetched' = Append(fetched, [feed |-> FEEDS[feed_idx], resp |-> resp])
    /\ feed_idx' = feed_idx + 1
    /\ UNCHANGED <<runcfg, m_pc, disk, clustered, post_idx, posted,
                   posted_items, n_load, n_save, n_remember>>
    /\ UNCHANGED seenvars
    /\ UNCHANGED notM

\* main.py 532-552 (BREAKING_MODE off): filter, then cluster
MainFilterCluster ==
    /\ script = "main.py"
    /\ m_pc = "fetch"
    /\ feed_idx > NumFeeds
    /\ clustered' = cluster_items(
           SelectSeq(all_items, LAMBDA it : hard_block(it.title, it.summary) = ""))
    /\ post_idx' = 1
    /\ posted' = 0
    /\ m_pc' = "post"
    /\ UNCHANGED <<runcfg, disk, feed_idx, all_items, fetched, posted_items,
                   n_load, n_save, n_remember>>
    /\ UNCHANGED seenvars
    /\ UNCHANGED notM

\* main.py 554-572: one item of the posting loop
MainPost ==
    /\ script = "main.py"
    /\ m_pc = "post"
    /\ post_idx <= Len(clustered)
    /\ posted < MAX_POSTS_PER_RUN
    /\ LET item == clustered[post_idx] IN
       IF MODE # "DIGEST"
          /\ is_duplicate_or_allowed_update(item, seen_urls, seen_story_keys, seen_titles)
       THEN \* skipped_dupe += 1; continue
            /\ UNCHANGED <<posted, posted_items, n_remember>>
            /\ UNCHANGED seenvars
       ELSE \E post_ok \in BOOLEAN :
              IF post_ok
              THEN /\ posted' = posted + 1
                   /\ posted_items' = Append(posted_items, item)
                   /\ IF StateUpdatesEnabled(MODE, SKIP_STATE_UPDATE)
                      THEN /\ Remember(item)
                           /\ n_remember' = n_remember + 1
                      ELSE /\ UNCHANGED n_remember
                           /\ UNCHANGED seenvars
              ELSE \* discord_post raised: the error is logged
                   /\ UNCHANGED <<posted, posted_items, n_remember>>
                   /\ UNCHANGED seenvars
    /\ post_idx' = post_idx + 1
    /\ UNCHANGED <<runcfg, m_pc, disk, feed_idx, all_items, fetched, clustered, n_load, n_save>>
    /\ UNCHANGED notM

\* main.py 555-556, 574-575: the loop ends (or breaks); the state is saved
MainFinish ==
    /\ script = "main.py"
    /\ m_pc = "post"
    /\ post_idx > Len(clustered) \/ posted >= MAX_POSTS_PER_RUN
    /\ IF StateUpdatesEnabled(MODE, SKIP_STATE_UPDATE)
       THEN /\ disk' = [seen_urls |-> seen_urls, seen_titles |-> seen_titles,
                        seen_story_keys |-> seen_story_keys]
            /\ n_save' = n_save + 1
       ELSE UNCHANGED <<disk, n_save>>
    /\ m_pc' = "done"
    /\ UNCHANGED <<runcfg, feed_idx, all_items, fetched, clustered, post_idx, posted,
                   posted_items, n_load, n_remember>>
    /\ UNCHANGED seenvars
    /\ UNCHANGED notM

\* digest.py 640-706: kept, deduped, picked, ranked
DigestSelect ==
    /\ script = "digest.py"
    /\ m_pc = "fetch"
    /\ feed_idx > NumFeeds
    /\ clustered' = Ranked(DigestDedup(Kept(all_items)), TOP_N, MAX_PER_SOURCE)
    /\ post_idx' = 0
    /\ posted' = 0
    /\ m_pc' = "post"
    /\ UNCHANGED <<runcfg, disk, feed_idx, all_items, fetched, posted_items,
                   n_load, n_save, n_remember>>
    /\ UNCHANGED seenvars
    /\ UNCHANGED notM

\* The messages digest.py posts (YOUTUBE_FEATURED_URL not set): the header or
\* the "nothing cleared" note (0), one per ranked story, the Adilo video, the
\* footer.
DigestMessages == Len(clustered) + 3

\* digest.py 731-781: one message; nothing catches an exception of
\* discord_post, which ends the run
DigestPost ==
    /\ script = "digest.py"
    /\ m_pc = "post"
    /\ post_idx < DigestMessages
    /\ \E post_ok \in BOOLEAN :
         IF post_ok
         THEN /\ posted' = posted + 1
              /\ posted_items' = IF post_idx \in 1..Len(clustered)
                                 THEN Append(posted_items, clustered[post_idx])
                                 ELSE posted_items
              /\ post_idx' = post_idx + 1
              /\ m_pc' = IF post_idx + 1 = DigestMessages THEN "done" ELSE "post"
         ELSE /\ m_pc' = "raised"
              /\ UNCHANGED <<posted, posted_items, post_idx>>
    /\ UNCHANGED <<runcfg, disk, feed_idx, all_items, fetched, clustered, n_load, n_save, n_remember>>
    /\ UNCHANGED seenvars
    /\ UNCHANGED notM

RunNext ==
    \/ MainLoad
    \/ DigestGuard
    \/ FetchFeed
    \/ MainFilterCluster
    \/ MainPost
    \/ MainFinish
    \/ DigestSelect
    \/ DigestPost

\* ------------------------------------------------------------------------
\* The Adilo resolver (digest.py 352-505)
\* ------------------------------------------------------------------------
VideoIds == {"vidA", "vidB"}
ForceIds == {"", "FORCED"}
FallbackIds == {"", "FALLBK"}

\* f"https://adilo.bigcommand.com/watch/{id}"
WatchUrl(id) == [kind |-> "watch", id |-> id]
\* FEATURED_VIDEO_FALLBACK_URL: the channel's home (hub) page
FEATURED_VIDEO_FALLBACK_URL == [kind |-> "hub", id |-> ""]
NoResult == [kind |-> "none", id |-> ""]
EmptyUrl == [kind |-> "empty", id |-> ""]

PROBES == <<"", "&Sort=desc", "&sort=desc",
            "&OrderBy=upload_date&Order=desc", "&OrderBy=UploadDate&Order=desc">>
\* candidates = [ADILO_PUBLIC_LATEST_PAGE, ADILO_PUBLIC_HOME_PAGE]
ScrapePages == <<"ADILO_PUBLIC_LATEST_PAGE", "ADILO_PUBLIC_HOME_PAGE">>
\* for attempt in range(1, 4)
ScrapeAttempts == 3

\* utcnow() - timedelta(days=14): a timestamp above it is fresh
FreshCutoff == MaxDt \div 2
Timestamps == 1..MaxDt

\* What an HTTP request can come to: requests.get raises (connection error or
\* timeout), or answers with a status and a body.
Transport == {"exception", "timeout", "http_error", "ok"}

\* Answers of GET /projects/{id}/files: json is "malformed" (r.json() raises),
\* "other" (not a dict, or no payload list) or "list" (payload is a list of
\* dicts, each with an id or without).
PayloadLists == UNION {[1..n -> VideoIds \cup {NoId}] : n \in 0..MaxItems}
ListResponses ==
    [t : Transport \ {"ok"}, json : {"other"}, payload : {<<>>}]
    \cup [t : {"ok"}, json : {"malformed", "other"}, payload : {<<>>}]
    \cup [t : {"ok"}, json : {"list"}, payload : PayloadLists]

\* Answers of GET /files/{id}/meta: upload_date is None (missing, or not
\* parseable by dateutil) or a timestamp.
MetaResponses ==
    [t : Transport \ {"ok"}, json : {"other"}, upload_date : {None}]
    \cup [t : {"ok"}, json : {"malformed"}, upload_date : {None}]
    \cup [t : {"ok"}, json : {"dict"}, upload_date : {None} \cup Timestamps]

\* Answers of a public page: the first video?id= match and the first /watch/
\* match of the markup (NoId: no match).
\* video_dt and watch_dt are what the watch page of each identifier says
\* about its publication (None: no parseable timestamp); the resolver never
\* requests those pages.
PublishStamps == {None, 1, MaxDt}
ScrapeResponses ==
    [t : Transport \ {"ok"}, video_id : {NoId}, watch_id : {NoId},
     video_dt : {None}, watch_dt : {None}]
    \cup {r \in [t : {"ok"}, video_id : VideoIds \cup {NoId}, watch_id : VideoIds \cup {NoId},
                 video_dt : PublishStamps, watch_dt : PublishStamps] :
            /\ r.video_id = NoId => r.video_dt = None
            /\ r.watch_id = NoId => r.watch_dt = None
            /\ r.video_id = r.watch_id => r.video_dt = r.watch_dt}

\* What a page answer holds: the identifiers found on it, and those of them
\* whose own page gives the latest parseable timestamp.
FoundIds(resp) == {resp.video_id, resp.watch_id} \ {NoId}
LatestValidated(resp) ==
    LET dt(id) == IF id = resp.video_id THEN resp.video_dt ELSE resp.watch_dt
        validated == {id \in FoundIds(resp) : dt(id) # None}
    IN {id \in validated : \A other \in validated : dt(id) >= dt(other)}
ScrapeSummary(resp) == [found |-> FoundIds(resp), latest |-> LatestValidated(resp)]
NoScrape == [found |-> {}, latest |-> {}]

\* adilo_get_json raises when requests.get raises, on a status >= 400
\* (raise_for_status) and when the body is not JSON.
adilo_get_json_raises(resp) ==
    resp.t \in {"exception", "timeout", "http_error"} \/ resp.json = "malformed"

\* _fetch_files_page_custom: the payload list, [] when the answer has none
fetch_files_page_custom(resp) ==
    IF resp.json = "list" THEN resp.payload ELSE <<>>

\* A sample without its [:15].
SampleIds_NoLimit(items) == SelectSeqIds(items)

\* sample_ids = [str(it.get("id")) for it in items[:15] if it.get("id")]
SampleIds(items) ==
    SelectSeqIds(SubSeq(items, 1, Min(Len(items), SampleLimit)))

\* _meta_upload_date: parse_dt_any(upload_date), None when absent or unparseable
meta_upload_date(resp) == resp.upload_date

\* A resolver that overlooks the forced id.
UseForcedId_Ignored(force) == FALSE

\* if FEATURED_VIDEO_FORCE_ID: return the forced watch URL
UseForcedId(force) == force # ""

\* fallback_watch_url: "" unless FEATURED_VIDEO_FALLBACK_ID is set
fallback_watch_url(fallback) ==
    IF fallback # "" THEN WatchUrl(fallback) ELSE EmptyUrl

\* A resolver that always falls back to the hub page.
HardFallback_HubOnly(fallback) == FEATURED_VIDEO_FALLBACK_URL

\* return fallback_watch_url or FEATURED_VIDEO_FALLBACK_URL
HardFallback(fallback) ==
    IF fallback_watch_url(fallback) # EmptyUrl
    THEN fallback_watch_url(fallback)
    ELSE FEATURED_VIDEO_FALLBACK_URL

\* A probe loop without its try/except: the exception leaves the resolver.
ProbeExceptTarget_NoCatch == "propagate"

\* Where control goes when the body of "for extra in PROBES: try:" raises:
\* the except clause logs and the loop goes on with the next variant.
ProbeExceptTarget == "next_probe"

\* Where control goes when requests.get raises inside scrape_latest_adilo_id:
\* the except clause logs, sleeps and the loop goes on with the next attempt.
ScrapeExceptTarget == "next_attempt"

ResolverInit ==
    /\ FEATURED_VIDEO_FORCE_ID \in ForceIds
    /\ FEATURED_VIDEO_FALLBACK_ID \in FallbackIds
    /\ api_configured \in BOOLEAN
    /\ rpc = "start"
    /\ probe = 0
    /\ sample_ids = <<>>
    /\ newest_dt_probe = None /\ newest_id_probe = NoId
    /\ best_dt = None /\ best_id = NoId
    /\ scrape_page = 0 /\ scrape_attempt = 0
    /\ latest_id = NoId
    /\ result = NoResult
    /\ n_list = 0 /\ n_meta = 0 /\ n_scrape = 0
    /\ faults = {}
    /\ dt_read_max = None
    /\ scraped = NoScrape

ResolverIdle ==
    /\ FEATURED_VIDEO_FORCE_ID = ""
    /\ FEATURED_VIDEO_FALLBACK_ID = ""
    /\ api_configured = FALSE
    /\ rpc = "idle"
    /\ probe = 0
    /\ sample_ids = <<>>
    /\ newest_dt_probe = None /\ newest_id_probe = NoId
    /\ best_dt = None /\ best_id = NoId
    /\ scrape_page = 0 /\ scrape_attempt = 0
    /\ latest_id = NoId
    /\ result = NoResult
    /\ n_list = 0 /\ n_meta = 0 /\ n_scrape = 0
    /\ faults = {}
    /\ dt_read_max = None
    /\ scraped = NoScrape

cfgvars == <<FEATURED_VIDEO_FORCE_ID, FEATURED_VIDEO_FALLBACK_ID, api_configured>>

\* Leave the API stage for the scrape stage (digest.py 489-500).
EnterScrape ==
    /\ rpc' = "scrape"
    /\ scrape_page' = 1
    /\ scrape_attempt' = 1

\* The for loop over PROBES moves to the next variant, or ends.
NextProbe ==
    IF probe < Len(PROBES)
    THEN /\ rpc' = "probe"
         /\ probe' = probe + 1
         /\ UNCHANGED <<scrape_page, scrape_attempt>>
    ELSE /\ rpc' = "api_end"
         /\ UNCHANGED <<probe, scrape_page, scrape_attempt>>

\* An exception leaves the resolver: nothing catches it.
Raise ==
    /\ rpc' = "raised"
    /\ UNCHANGED <<probe, scrape_page, scrape_attempt>>

\* digest.py 443-457 and 496-497: forced id, fallback id, API or scrape.
ResolveStart ==
    /\ rpc = "start"
    /\ IF UseForcedId(FEATURED_VIDEO_FORCE_ID)
       THEN /\ result' = WatchUrl(FEATURED_VIDEO_FORCE_ID)
            /\ rpc' = "done"
            /\ UNCHANGED <<probe, scrape_page, scrape_attempt>>
       ELSE /\ result' = result
            /\ IF api_configured
               THEN /\ rpc' = "probe"
                    /\ probe' = 1
                    /\ UNCHANGED <<scrape_page, scrape_attempt>>
               ELSE /\ EnterScrape
                    /\ UNCHANGED probe
    /\ UNCHANGED notR
    /\ UNCHANGED <<cfgvars, sample_ids, newest_dt_probe, newest_id_probe,
                   best_dt, best_id, latest_id, n_list, n_meta, n_scrape, faults,
                   dt_read_max, scraped>>

\* digest.py 461-468: the list request of one probe variant.
ProbeList ==
    /\ rpc = "probe"
    /\ \E resp \in ListResponses :
         /\ n_list' = n_list + 1
         /\ n_meta' = 0
         /\ IF adilo_get_json_raises(resp)
            THEN /\ faults' = faults \cup {"list"}
                 /\ IF ProbeExceptTarget = "next_probe" THEN NextProbe ELSE Raise
                 /\ UNCHANGED <<sample_ids, newest_dt_probe, newest_id_probe>>
            ELSE /\ faults' = faults
                 /\ IF fetch_files_page_custom(resp) = <<>>
                    THEN \* if not items: continue
                         /\ NextProbe
                         /\ UNCHANGED <<sample_ids, newest_dt_probe, newest_id_probe>>
                    ELSE /\ sample_ids' = SampleIds(fetch_files_page_custom(resp))
                         /\ newest_dt_probe' = None
                         /\ newest_id_probe' = NoId
                         /\ rpc' = "meta"
                         /\ UNCHANGED <<probe, scrape_page, scrape_attempt>>
    /\ UNCHANGED notR
    /\ UNCHANGED <<cfgvars, best_dt, best_id, latest_id, result, n_scrape,
                   dt_read_max, scraped>>

\* dt and (newest_dt_probe is None or dt > newest_dt_probe)
NewerInProbe(dt, newest) == dt # None /\ (newest = None \/ dt > newest)

\* digest.py 470-475: one metadata request of the sample.
ProbeMeta ==
    /\ rpc = "meta"
    /\ sample_ids # <<>>
    /\ \E resp \in MetaResponses :
         /\ n_meta' = n_meta + 1
         /\ dt_read_max' = IF adilo_get_json_raises(resp)
                           THEN dt_read_max
                           ELSE Max(dt_read_max, meta_upload_date(resp))
         /\ IF adilo_get_json_raises(resp)
            THEN /\ faults' = faults \cup {"meta"}
                 /\ IF ProbeExceptTarget = "next_probe" THEN NextProbe ELSE Raise
                 /\ UNCHANGED <<sample_ids, newest_dt_probe, newest_id_probe>>
            ELSE /\ faults' = faults
                 /\ IF NewerInProbe(meta_upload_date(resp), newest_dt_probe)
                    THEN /\ newest_dt_probe' = meta_upload_date(resp)
                         /\ newest_id_probe' = Head(sample_ids)
                    ELSE UNCHANGED <<newest_dt_probe, newest_id_probe>>
                 /\ sample_ids' = Tail(sample_ids)
                 /\ UNCHANGED <<rpc, probe, scrape_page, scrape_attempt>>
    /\ UNCHANGED notR
    /\ UNCHANGED <<cfgvars, best_dt, best_id, latest_id, result, n_list, n_scrape,
                   scraped>>

\* A resolver for which no timestamp is fresh.
IsFresh_Never(dt) == FALSE

\* newest_dt_probe > (utcnow() - timedelta(days=14))
IsFresh(dt) == dt # None /\ dt > FreshCutoff

\* digest.py 477-484: the end of a probe: keep the best pair, return when fresh.
ProbeEnd ==
    /\ rpc = "meta"
    /\ sample_ids = <<>>
    /\ IF newest_dt_probe # None /\ newest_id_probe # NoId
          /\ (best_dt = None \/ newest_dt_probe > best_dt)
       THEN /\ best_dt' = newest_dt_probe
            /\ best_id' = newest_id_probe
       ELSE UNCHANGED <<best_dt, best_id>>
    /\ IF IsFresh(newest_dt_probe)
       THEN /\ result' = WatchUrl(newest_id_probe)
            /\ rpc' = "done"
            /\ UNCHANGED <<probe, scrape_page, scrape_attempt>>
       ELSE /\ result' = result
            /\ NextProbe
    /\ UNCHANGED notR
    /\ UNCHANGED <<cfgvars, sample_ids, newest_dt_probe, newest_id_probe,
                   latest_id, n_list, n_meta, n_scrape, faults, dt_read_max, scraped>>

\* digest.py 489-495: after the loop over PROBES the stale candidate, if any,
\* is printed and the resolver falls through to the scrape.  The locals of the
\* probe loop are not read again: they are cleared here.
ApiEnd ==
    /\ rpc = "api_end"
    /\ EnterScrape
    /\ sample_ids' = <<>>
    /\ newest_dt_probe' = None
    /\ newest_id_probe' = NoId
    /\ n_meta' = 0
    /\ UNCHANGED notR
    /\ UNCHANGED <<cfgvars, probe, best_dt, best_id, latest_id, result, n_list,
                   n_scrape, faults, dt_read_max, scraped>>

\* The identifier one page yields: video?id= first, then /watch/ (429-436).
ScrapedId(resp) ==
    IF resp.video_id # NoId THEN resp.video_id ELSE resp.watch_id

\* The two nested loops of scrape_latest_adilo_id move on, or end with None,
\* and resolve returns the fallback (digest.py 441, 500-505).
NextAttempt ==
    IF scrape_attempt < ScrapeAttempts
    THEN /\ scrape_attempt' = scrape_attempt + 1
         /\ UNCHANGED <<scrape_page, rpc, latest_id, result>>
    ELSE IF scrape_page < Len(ScrapePages)
    THEN /\ scrape_page' = scrape_page + 1
         /\ scrape_attempt' = 1
         /\ UNCHANGED <<rpc, latest_id, result>>
    ELSE /\ latest_id' = NoId
         /\ result' = HardFallback(FEATURED_VIDEO_FALLBACK_ID)
         /\ rpc' = "done"
         /\ UNCHANGED <<scrape_page, scrape_attempt>>

\* digest.py 418-440 and 500-503: one request of a public page.
ScrapeAttempt ==
    /\ rpc = "scrape"
    /\ \E resp \in ScrapeResponses :
         /\ n_scrape' = n_scrape + 1
         /\ IF resp.t \in {"exception", "timeout"}
            THEN /\ faults' = faults \cup {"scrape"}
                 /\ IF ScrapeExceptTarget = "next_attempt"
                    THEN NextAttempt
                    ELSE /\ rpc' = "raised"
                         /\ UNCHANGED <<scrape_page, scrape_attempt, latest_id, result>>
                 /\ UNCHANGED scraped
            ELSE /\ faults' = faults
                 /\ IF resp.t = "http_error" \/ ScrapedId(resp) = NoId
                    THEN /\ NextAttempt
                         /\ UNCHANGED scraped
                    ELSE /\ scraped' = ScrapeSummary(resp)
                         /\ latest_id' = ScrapedId(resp)
                         /\ result' = WatchUrl(ScrapedId(resp))
                         /\ rpc' = "done"
                         /\ UNCHANGED <<scrape_page, scrape_attempt>>
    /\ UNCHANGED notR
    /\ UNCHANGED <<cfgvars, probe, sample_ids, newest_dt_probe, newest_id_probe,
                   best_dt, best_id, n_list, n_meta, dt_read_max>>

ResolverNext ==
    \/ ResolveStart
    \/ ProbeList
    \/ ProbeMeta
    \/ ProbeEnd
    \/ ApiEnd
    \/ ScrapeAttempt

InitResolver == ResolverInit /\ ClassifyIdle /\ ClusterIdle /\ DedupIdle /\ RunIdle /\ SelectIdle

SpecResolver == InitResolver /\ [][ResolverNext]_vars

\* ------------------------------------------------------------------------
\* Properties of the resolver
\* ------------------------------------------------------------------------
IsUrl(u) == \/ u = FEATURED_VIDEO_FALLBACK_URL
            \/ (u.kind = "watch" /\ u.id # NoId)

\* C1: resolve_featured_adilo_watch_url never raises: whatever each list,
\* metadata and scrape request comes to (exception, timeout, HTTP status
\* >= 400, malformed JSON, empty list, unparseable date), no exception leaves
\* the resolver, and when it returns it returns a URL.
C1_NeverRaises ==
    /\ rpc # "raised"
    /\ rpc = "done" => IsUrl(result)

\* A run that returned although a list request, a metadata request and a
\* scrape request had all failed.
C1_Witness ==
    /\ rpc = "done"
    /\ faults = {"list", "meta", "scrape"}

\* No forced id, the API stage found no identifier (or was not tried) and the
\* scrape returned None.
NothingFound ==
    /\ rpc = "done"
    /\ FEATURED_VIDEO_FORCE_ID = ""
    /\ best_id = NoId
    /\ latest_id = NoId

\* C2 as stated: with no forced identifier, whenever every API probe fails or
\* yields nothing and every scrape attempt yields no identifier, the resolver
\* returns the static hub URL, whatever the other configuration values are.
C2_Original ==
    NothingFound => result = FEATURED_VIDEO_FALLBACK_URL

\* C2 as amended: in that case the resolver returns the watch URL of
\* FEATURED_VIDEO_FALLBACK_ID when that is configured, and the static hub URL
\* (FEATURED_VIDEO_FALLBACK_URL) only when it is not.
C2_FallbackIdOrHub ==
    NothingFound =>
        result = IF FEATURED_VIDEO_FALLBACK_ID # ""
                 THEN WatchUrl(FEATURED_VIDEO_FALLBACK_ID)
                 ELSE FEATURED_VIDEO_FALLBACK_URL

\* Every probe and every scrape attempt was made and found nothing, with a
\* fallback id configured.
C2_Witness ==
    /\ NothingFound
    /\ api_configured
    /\ n_list = Len(PROBES)
    /\ n_scrape = ScrapeAttempts * Len(ScrapePages)
    /\ FEATURED_VIDEO_FALLBACK_ID # ""

\* C3: when a forced media identifier is configured the resolver returns that
\* identifier's watch URL and issues no list, metadata or scrape request.
C3_ForcedWins ==
    FEATURED_VIDEO_FORCE_ID # "" =>
        /\ n_list = 0 /\ n_meta = 0 /\ n_scrape = 0
        /\ rpc = "done" => result = WatchUrl(FEATURED_VIDEO_FORCE_ID)

\* A run with a forced id and the API credentials configured has returned.
C3_Witness ==
    /\ FEATURED_VIDEO_FORCE_ID # ""
    /\ api_configured
    /\ rpc = "done"

\* ------------------------------------------------------------------------
\* Properties of the classifiers
\* ------------------------------------------------------------------------
InitClassify == ClassifyInit /\ ResolverIdle /\ ClusterIdle /\ DedupIdle /\ RunIdle /\ SelectIdle

SpecClassify == InitClassify /\ [][ClassifyNext]_vars

OtherCategories(hay) ==
    << <<"COMMUNITY/OPINION", hay \cap COMMUNITY_OPINION_BLOCK # {}>>,
       <<"LISTICLE/GUIDE/REVIEW", hay \cap LISTICLE_GUIDE_BLOCK # {}>>,
       <<"EVERGREEN/SEO_REFRESH", hay \cap EVERGREEN_BLOCK # {}>>,
       <<"DEALS/SHOPPING", hay \cap (DEALS_BLOCK \cup MoneyShapes) # {}>>,
       <<"RUMOR/SPECULATION", hay \cap RUMOR_BLOCK # {}>> >>

\* The entertainment category, under the name each classifier gives it.
Entertainment(hay, name) == <<name, hay \cap NON_GAME_ENTERTAINMENT_BLOCK # {}>>

\* The reason of the first category of the list that matches, "" when none does.
FirstMatching(categories) ==
    IF \E i \in 1..Len(categories) : categories[i][2]
    THEN LET first == CHOOSE i \in 1..Len(categories) :
                          /\ categories[i][2]
                          /\ \A j \in 1..(i - 1) : ~categories[j][2]
         IN categories[first][1]
    ELSE ""

\* C19, as stated: for a text that passes the relevance gate, each classifier
\* returns the reason of the first matching category in the order
\* entertainment, opinion/community, listicle/guide, evergreen, deals/money,
\* rumor, and the empty reason if and only if no category matches.
C19_Original ==
    LET hay == Hay(c_title, c_summary) IN
    /\ (reason_main # NotClassified /\ main_game_or_adjacent(c_title, c_summary))
          => reason_main = FirstMatching(
                 <<Entertainment(hay, "NON_GAME_ENTERTAINMENT")>> \o OtherCategories(hay))
    /\ (reason_digest # NotClassified /\ digest_game_or_adjacent(c_title, c_summary))
          => reason_digest = FirstMatching(
                 <<Entertainment(hay, "NON_GAMING_ENTERTAINMENT")>> \o OtherCategories(hay))

\* C19, as amended: for a text that passes its relevance gate, block_reason
\* (digest.py) returns the reason of the first matching category in the stated
\* order; hard_block (main.py) returns the reason of the first matching
\* category in the order opinion/community, listicle/guide, evergreen,
\* deals/money, rumor, and never the entertainment reason: it accepts a text
\* if and only if none of these five matches, entertainment terms or not.
C19_FirstMatchEntertainmentOnlyInDigest ==
    LET hay == Hay(c_title, c_summary) IN
    /\ (reason_main # NotClassified /\ main_game_or_adjacent(c_title, c_summary))
          => reason_main = FirstMatching(OtherCategories(hay))
    /\ (reason_digest # NotClassified /\ digest_game_or_adjacent(c_title, c_summary))
          => reason_digest = FirstMatching(
                 <<Entertainment(hay, "NON_GAMING_ENTERTAINMENT")>> \o OtherCategories(hay))

\* A text that passes both gates and matches the deals and the rumor
\* category: both classifiers gave the deals reason.
C19_Witness ==
    /\ main_game_or_adjacent(c_title, c_summary)
    /\ digest_game_or_adjacent(c_title, c_summary)
    /\ {"sale", "rumor"} \subseteq Hay(c_title, c_summary)
    /\ reason_main = "DEALS/SHOPPING"
    /\ reason_digest = "DEALS/SHOPPING"

\* C20, as stated: a text that holds a domain allowlist term and an
\* entertainment term and matches no other exclusionary category is accepted
\* by both classifiers.
C20_Original ==
    LET hay == Hay(c_title, c_summary) IN
    (/\ contains_any(hay, GAME_TERMS \cup ADJACENT_TERMS)
     /\ contains_any(hay, NON_GAME_ENTERTAINMENT_BLOCK)
     /\ FirstMatching(OtherCategories(hay)) = "")
        => /\ reason_main \in {NotClassified, ""}
           /\ reason_digest \in {NotClassified, ""}

\* ------------------------------------------------------------------------
\* Properties of clustering
\* ------------------------------------------------------------------------
InitCluster == ClusterInit /\ ResolverIdle /\ ClassifyIdle /\ DedupIdle /\ RunIdle /\ SelectIdle

SpecCluster == InitCluster /\ [][ClusterNext]_vars

Range(s) == {s[i] : i \in 1..Len(s)}

\* The candidates of `items` that tell the story of `it`.
SameStory(items, it) ==
    {x \in Range(items) : make_story_key(x.title) = make_story_key(it.title)}

\* r is of the best-ranked source of its group and the latest of that source.
BestOfGroup(r, group) ==
    /\ r \in group
    /\ \A x \in group : PriorityIndex(r.source) <= PriorityIndex(x.source)
    /\ \A x \in group : x.source = r.source => x.published_at <= r.published_at

\* `out` holds exactly one representative for every story of `items`, and it
\* is the best of its group.
RepresentativesByPriority(items, out) ==
    /\ \A it \in Range(items) :
          Cardinality({i \in 1..Len(out) :
              make_story_key(out[i].title) = make_story_key(it.title)}) = 1
    /\ \A i \in 1..Len(out) : BestOfGroup(out[i], SameStory(items, out[i]))

\* `out` holds exactly one representative for every story of `items`, and it
\* is the latest of its group, whatever its source.
RepresentativesByRecency(items, out) ==
    /\ \A it \in Range(items) :
          Cardinality({i \in 1..Len(out) :
              make_story_key(out[i].title) = make_story_key(it.title)}) = 1
    /\ \A i \in 1..Len(out) :
          /\ out[i] \in SameStory(items, out[i])
          /\ \A x \in SameStory(items, out[i]) : x.published_at <= out[i].published_at

C6_ClusterIdempotent ==
    /\ k_runs = 2 => k_list = k_prev
    /\ k_runs >= 1 =>
          \A i, j \in 1..Len(k_list) :
              i # j => make_story_key(k_list[i].title) # make_story_key(k_list[j].title)

\* cluster_items was applied twice to a list in which two stories of the same
\* timestamp each had several candidates.
C6_Witness ==
    /\ k_runs = 2
    /\ Len(k_list) = 2
    /\ Len(k_input) > 2
    /\ k_list[1].published_at = k_list[2].published_at

\* ------------------------------------------------------------------------
\* Properties of the duplicate guard and the seen state
\* ------------------------------------------------------------------------
InitDedup == DedupInit /\ ResolverIdle /\ ClassifyIdle /\ ClusterIdle /\ RunIdle /\ SelectIdle

SpecDedup == InitDedup /\ [][DedupNext]_vars

\* The checked item's title or summary holds an update keyword.
HasUpdateSignal(item) ==
    (item.title.terms \cup item.summary) \cap UPDATE_KEYWORDS # {}

\* C7: a candidate whose URL is in the seen URLs is reported as duplicate
\* whether or not its title or summary contains an update keyword.
C7_SeenUrlIsDuplicate ==
    (d_item # NoItem /\ InList(d_item.url, seen_urls)) => d_result = TRUE

\* A checked item with an update keyword whose URL was seen and whose story
\* key and title were not: only the URL rule makes it a duplicate.
C7_Witness ==
    /\ d_item # NoItem
    /\ HasUpdateSignal(d_item)
    /\ InList(d_item.url, seen_urls)
    /\ ~InList(make_story_key(d_item.title), seen_story_keys)
    /\ d_result = TRUE

\* C8: for a candidate whose URL was not seen but whose StoryKey was seen,
\* is_duplicate_or_allowed_update returns false when the title or summary
\* contains an update keyword and true when it does not.
C8_UpdateAllowedThrough ==
    (/\ d_item # NoItem
     /\ ~InList(d_item.url, seen_urls)
     /\ InList(make_story_key(d_item.title), seen_story_keys))
        => d_result = ~HasUpdateSignal(d_item)

\* A checked item with a new URL, a seen story key and the update keyword in
\* its summary only, found not to be a duplicate.
C8_Witness ==
    /\ d_item # NoItem
    /\ ~InList(d_item.url, seen_urls)
    /\ InList(make_story_key(d_item.title), seen_story_keys)
    /\ InList(title_norm(d_item.title), seen_titles)
    /\ d_item.title.terms \cap UPDATE_KEYWORDS = {}
    /\ d_item.summary \cap UPDATE_KEYWORDS # {}
    /\ d_result = FALSE

\* C9: after any sequence of remember calls each of the three seen lists holds
\* at most the bound (SeenLimit, 5000 in the code) entries and equals the most
\* recent entries of everything appended, in order.
C9_SeenListsKeepMostRecent ==
    /\ Len(seen_urls) <= SeenLimit
    /\ Len(seen_story_keys) <= SeenLimit
    /\ Len(seen_titles) <= SeenLimit
    /\ seen_urls = LastN(all_urls, SeenLimit)
    /\ seen_story_keys = LastN(all_story_keys, SeenLimit)
    /\ seen_titles = LastN(all_titles, SeenLimit)

\* More was appended than the bound allows, and the oldest entry, which is no
\* longer in the list, differs from everything kept.
C9_Witness ==
    /\ Len(all_urls) > SeenLimit
    /\ Len(seen_urls) = SeenLimit
    /\ ~InList(all_urls[1], seen_urls)
    /\ ~InList(all_titles[1], seen_titles)

\* A title of the retained history is as similar to the checked item's title
\* as the threshold asks.
SimilarSeenTitle ==
    \E i \in 1..Len(seen_titles) :
        fuzz_ratio(title_norm(d_item.title), seen_titles[i]) >= TITLE_FUZZY_THRESHOLD

\* C21, as stated: a candidate without an update keyword whose URL and
\* StoryKey are unseen is a duplicate whenever any title of the retained
\* history, at whatever position, is similar to its normalized title.
C21_Original ==
    (/\ d_item # NoItem
     /\ ~HasUpdateSignal(d_item)
     /\ ~InList(d_item.url, seen_urls)
     /\ ~InList(make_story_key(d_item.title), seen_story_keys)
     /\ SimilarSeenTitle)
        => d_result = TRUE

\* ------------------------------------------------------------------------
\* Properties of a run
\* ------------------------------------------------------------------------
InitRun == RunInit /\ DedupInit /\ ResolverIdle /\ ClassifyIdle /\ ClusterIdle /\ SelectIdle

SpecRun == InitRun /\ [][RunNext]_vars

\* A preview/digest run: the digest script, MODE = DIGEST, or SKIP_STATE_UPDATE.
PreviewRun == script = "digest.py" \/ MODE = "DIGEST" \/ SKIP_STATE_UPDATE

\* C10: in a preview/digest run the persisted SeenState is left unchanged
\* whatever is posted, and remember and save_state are never invoked; in a
\* normal run the state is loaded once, at the start, and saved exactly once,
\* after the posting loop has ended.
C10_StateFrame ==
    /\ PreviewRun =>
          /\ disk = disk0
          /\ n_remember = 0
          /\ n_save = 0
    /\ ~PreviewRun =>
          /\ n_load = IF m_pc = "start" THEN 0 ELSE 1
          /\ n_save = IF m_pc = "done" THEN 1 ELSE 0

\* A run of main.py with SKIP_STATE_UPDATE set has ended after posting an
\* item that the state on disk does not hold.
C10_Witness ==
    /\ script = "main.py"
    /\ MODE = "RAW"
    /\ SKIP_STATE_UPDATE
    /\ m_pc = "done"
    /\ posted > 0
    /\ \E i \in 1..Len(posted_items) : ~InList(posted_items[i].url, disk.seen_urls)

\* ------------------------------------------------------------------------
\* Properties of the resolver's stages
\* ------------------------------------------------------------------------
\* The resolver returned from the API stage: no forced id, and the scrape
\* stage was never entered.
ReturnedFromApi ==
    /\ rpc = "done"
    /\ FEATURED_VIDEO_FORCE_ID = ""
    /\ scrape_page = 0

\* C14, as stated: the resolver returns the static hub URL only in runs where
\* no strategy found an identifier; in particular not when the API probes
\* found a (stale) best pair and the scrape found nothing.
C14_Original ==
    (rpc = "done" /\ result = FEATURED_VIDEO_FALLBACK_URL) =>
        (best_id = NoId /\ latest_id = NoId)

\* C15, as stated: an identifier returned from the API stage has an upload
\* timestamp at least as late as every upload timestamp the metadata
\* endpoint gave earlier in the run, in whichever probe variant.
C15_Original ==
    ReturnedFromApi =>
        /\ result = WatchUrl(newest_id_probe)
        /\ newest_dt_probe >= dt_read_max

\* C16: once a probe variant completes with a newest upload timestamp above
\* the freshness cutoff, the resolver returns that probe's newest identifier
\* with no list, metadata or scrape request in between, and after it has
\* returned nothing is requested any more.
C16_FreshShortCircuit ==
    [][ /\ (rpc = "meta" /\ sample_ids = <<>>
            /\ newest_dt_probe # None /\ newest_dt_probe > FreshCutoff)
           => /\ rpc' = "done"
              /\ result' = WatchUrl(newest_id_probe)
              /\ UNCHANGED <<n_list, n_meta, n_scrape>>
        /\ rpc = "done" => UNCHANGED <<result, n_list, n_meta, n_scrape>>
      ]_vars

\* The second probe variant was fresh: the resolver returned its newest
\* identifier after two list requests and no scrape.
C16_Witness ==
    /\ ReturnedFromApi
    /\ probe = 2
    /\ n_list = 2
    /\ n_scrape = 0
    /\ newest_dt_probe > FreshCutoff
    /\ result = WatchUrl(newest_id_probe)

\* What is left to do, at most, counted in requests and loop ends: it falls
\* with every step of the resolver and is 0 when the resolver has returned.
ScrapeLeft ==
    (Len(ScrapePages) - scrape_page) * ScrapeAttempts + (ScrapeAttempts - scrape_attempt) + 1
ScrapeBudget == Len(ScrapePages) * ScrapeAttempts + 1
ProbeBudget == SampleLimit + 2
Variant ==
    IF rpc = "start" THEN Len(PROBES) * ProbeBudget + ScrapeBudget + 1
    ELSE IF rpc = "probe" THEN (Len(PROBES) - probe + 1) * ProbeBudget + ScrapeBudget
    ELSE IF rpc = "meta"
         THEN (Len(PROBES) - probe) * ProbeBudget + Len(sample_ids) + 1 + ScrapeBudget
    ELSE IF rpc = "api_end" THEN ScrapeBudget
    ELSE IF rpc = "scrape" THEN ScrapeLeft
    ELSE 0

\* C17: whatever the host answers, a run makes at most 5 list requests, at
\* most 15 (here SampleLimit) metadata requests per probe variant and at most
\* 3 scrape requests for each of the 2 public pages, and it terminates: until
\* it has returned it can always take a step, and every step lowers a
\* non-negative measure.
C17_BoundedRequests ==
    /\ [](/\ n_list <= Len(PROBES)
          /\ n_meta <= SampleLimit
          /\ n_scrape <= Len(ScrapePages) * ScrapeAttempts
          /\ rpc = "scrape" =>
                /\ scrape_page \in 1..Len(ScrapePages)
                /\ scrape_attempt \in 1..ScrapeAttempts
                /\ n_scrape = (scrape_page - 1) * ScrapeAttempts + scrape_attempt - 1
          /\ Variant >= 0
          /\ rpc # "done" => ENABLED ResolverNext)
    /\ [][Variant' < Variant]_vars

\* A run that returned after every request it can make: five list requests
\* with metadata requests behind them, then six scrape requests.
C17_Witness ==
    /\ rpc = "done"
    /\ n_list = Len(PROBES)
    /\ best_id # NoId
    /\ "meta" \in faults
    /\ n_scrape = Len(ScrapePages) * ScrapeAttempts

\* C18, as stated: when the page scraped holds several identifiers and at
\* least one of them has a parseable publish timestamp on its own page, the
\* identifier returned is one with the latest such timestamp.
C18_Original ==
    (rpc = "done" /\ latest_id # NoId
     /\ Cardinality(scraped.found) > 1 /\ scraped.latest # {})
        => latest_id \in scraped.latest

\* ------------------------------------------------------------------------
\* Properties of the digest's selection
\* ------------------------------------------------------------------------
InitSelect == SelectInit /\ ResolverIdle /\ ClassifyIdle /\ ClusterIdle /\ DedupIdle /\ RunIdle

SpecSelect == InitSelect /\ [][SelectNext]_vars

\* The number of items of source s in a list.
FromSource(list, s) == Cardinality({i \in 1..Len(list) : list[i].source = s})

\* The sources that appear in a list.
SourcesOf(list) == {list[i].source : i \in 1..Len(list)}

\* C11: for every candidate list, every TOP_N >= 0 and every MAX_PER_SOURCE,
\* the selection holds at most TOP_N items, holds no candidate twice (and
\* nothing that is not a candidate), and is empty when there is no candidate.
C11_SelectionBounded ==
    sel_pc = "ranked" =>
        /\ Len(sel_ranked) <= sel_top_n
        /\ \A i, j \in 1..Len(sel_ranked) : i # j => sel_ranked[i] # sel_ranked[j]
        /\ \A i \in 1..Len(sel_ranked) : sel_ranked[i] \in Range(sel_deduped)
        /\ sel_deduped = <<>> => sel_ranked = <<>>

\* More candidates than TOP_N, and the selection is full, with two items of
\* one source (pass 2 has picked).
C11_Witness ==
    /\ sel_pc = "ranked"
    /\ sel_top_n > 0
    /\ Len(sel_deduped) > sel_top_n
    /\ Len(sel_ranked) = sel_top_n
    /\ \E s \in SelectSources : FromSource(sel_ranked, s) = 2

\* C12, as stated: for every MAX_PER_SOURCE, 0 included, no source has more
\* than MAX_PER_SOURCE items in the selection, unless the candidates come
\* from fewer than TOP_N distinct sources.
C12_Original ==
    sel_pc = "ranked" =>
        \/ Cardinality(SourcesOf(sel_deduped)) < sel_top_n
        \/ \A s \in SelectSources : FromSource(sel_ranked, s) <= sel_max_per_source

RECURSIVE GatheredFrom(_)
\* The items of the feeds that answered, in the order of the feeds.
GatheredFrom(log) ==
    IF log = <<>> THEN <<>>
    ELSE GatheredFrom(SubSeq(log, 1, Len(log) - 1))
         \o (IF log[Len(log)].resp.t = "ok"
             THEN ItemsOfFeed(log[Len(log)].feed, log[Len(log)].resp.entries)
             ELSE <<>>)

\* The run is past the loop over the feeds (a digest stopped by its schedule
\* guard never enters it).
PastFeeds == m_pc \in {"post", "raised"} \/ (m_pc = "done" /\ post_idx > 0)

\* C13: a failure while fetching one feed does not abort the run: every feed
\* is fetched, in order, whatever the feeds before it came to, and when the
\* filtering starts the items gathered are exactly the items of the feeds
\* that answered.
C13_FeedFailureIsolated ==
    /\ \A i \in 1..Len(fetched) : fetched[i].feed = FEEDS[i]
    /\ all_items = GatheredFrom(fetched)
    /\ PastFeeds => Len(fetched) = NumFeeds

\* The first feed failed, a later one answered with an item, and the run
\* went on to post with that item gathered.
C13_Witness ==
    /\ PastFeeds
    /\ Len(fetched) = NumFeeds
    /\ fetched[1].resp.t # "ok"
    /\ \E i \in 2..NumFeeds : fetched[i].resp.t = "ok" /\ fetched[i].resp.entries # <<>>
    /\ all_items # <<>>
    /\ posted_items # <<>>

\* The orders in which the same candidates can arrive.
Arrivals(items) ==
    {[i \in 1..Len(items) |-> items[f[i]]] :
        f \in {g \in [1..Len(items) -> 1..Len(items)] :
                  \A i, j \in 1..Len(items) : g[i] = g[j] => i = j}}

\* C23, as stated: the representatives do not depend on the order of arrival.
\* Whatever the order in which the same candidates are gathered, cluster_items
\* (main.py) yields the same set of representatives, and so does the
\* de-duplication of the digest.
C23_Original ==
    /\ k_runs = 1 =>
          \A arrived \in Arrivals(k_input) :
              Range(cluster_items(arrived)) = Range(k_list)
    /\ deduped # <<>> =>
          \A arrived \in Arrivals(k_input) :
              Range(DigestDedup(arrived)) = Range(deduped)

\* ------------------------------------------------------------------------
\* Properties of the posting loop
\* ------------------------------------------------------------------------
\* A normal run: main.py, MODE not DIGEST, SKIP_STATE_UPDATE off, past the
\* load of the state.
NormalRun ==
    /\ script = "main.py"
    /\ StateUpdatesEnabled(MODE, SKIP_STATE_UPDATE)
    /\ m_pc # "start"

PostedUrls == [i \in 1..Len(posted_items) |-> posted_items[i].url]
PostedKeys == [i \in 1..Len(posted_items) |-> make_story_key(posted_items[i].title)]
PostedTitles == [i \in 1..Len(posted_items) |-> title_norm(posted_items[i].title)]

\* The in-memory state is the loaded state followed by the entries of the
\* posts that succeeded, and of nothing else, cut to the retained length.
StateIsLoadedPlusPosted ==
    /\ seen_urls = LastN(disk0.seen_urls \o PostedUrls, SeenLimit)
    /\ seen_story_keys = LastN(disk0.seen_story_keys \o PostedKeys, SeenLimit)
    /\ seen_titles = LastN(disk0.seen_titles \o PostedTitles, SeenLimit)

\* An item of the loop that was not posted (skipped as a duplicate, or its
\* post raised): nothing of the state changes and the loop goes on with the
\* next item.
NotPostedStep ==
    (NormalRun /\ m_pc = "post" /\ post_idx' # post_idx /\ posted' = posted) =>
        /\ seen_urls' = seen_urls
        /\ seen_story_keys' = seen_story_keys
        /\ seen_titles' = seen_titles
        /\ post_idx' = post_idx + 1
        /\ m_pc' = "post"

\* C24: in a normal run, at every point of the posting loop the in-memory
\* SeenState holds, beyond what was loaded, exactly the items whose post
\* succeeded; an item that is not posted (its post raised) leaves the state
\* unchanged and the loop continues with the next item; every posted item is
\* in the in-memory state and in the state saved at the end.
C24_StateTracksPosts ==
    /\ [](NormalRun =>
            /\ StateIsLoadedPlusPosted
            /\ \A i \in 1..Len(posted_items) :
                  /\ InList(posted_items[i].url, seen_urls)
                  /\ InList(make_story_key(posted_items[i].title), seen_story_keys)
                  /\ InList(title_norm(posted_items[i].title), seen_titles)
            /\ m_pc = "done" =>
                  disk = [seen_urls |-> seen_urls, seen_titles |-> seen_titles,
                          seen_story_keys |-> seen_story_keys])
    /\ [][NotPostedStep]_vars

\* A normal run has ended in which the post of the first item raised (the
\* item was no duplicate of anything loaded, yet it is not in the saved
\* state) and the post of a later item succeeded.
C24_Witness ==
    /\ NormalRun
    /\ m_pc = "done"
    /\ Len(clustered) >= 2
    /\ ~is_duplicate_or_allowed_update(clustered[1], disk0.seen_urls,
                                       disk0.seen_story_keys, disk0.seen_titles)
    /\ ~InList(clustered[1].url, disk.seen_urls)
    /\ Len(posted_items) >= 1
    /\ \A i \in 1..Len(posted_items) : InList(posted_items[i].url, disk.seen_urls)

\* The URLs held in memory when the j-th posted item was checked.
UrlsAtCheck(j) == LastN(disk0.seen_urls \o SubSeq(PostedUrls, 1, j - 1), SeenLimit)

\* C25, as stated: in a normal run no two posted items share a URL, and no
\* item is posted whose URL was in the loaded SeenState.
C25_Original ==
    NormalRun =>
        /\ \A i, j \in 1..Len(posted_items) :
              i < j => posted_items[i].url # posted_items[j].url
        /\ \A j \in 1..Len(posted_items) :
              ~InList(posted_items[j].url, disk0.seen_urls)

\* C25, amended: in a normal run no two posted items share a URL, and no
\* item is posted whose URL is in the state as it stands when the item is
\* checked: the loaded URLs and those of the earlier posts of the run, less
\* the oldest ones that remember has dropped since the load.
C25_PostedUrlNotInStateAtCheck ==
    NormalRun =>
        /\ \A i, j \in 1..Len(posted_items) :
              i < j => posted_items[i].url # posted_items[j].url
        /\ \A j \in 1..Len(posted_items) :
              ~InList(posted_items[j].url, UrlsAtCheck(j))

\* A normal run has posted an item with a URL that the loaded state does not
\* hold, and has then skipped another story with the same URL, one that is
\* no duplicate of anything loaded.
C25_Witness ==
    /\ NormalRun
    /\ Len(posted_items) >= 1
    /\ \E k \in 1..Len(clustered) :
          /\ k < post_idx
          /\ \A i \in 1..Len(posted_items) : posted_items[i] # clustered[k]
          /\ clustered[k].url = posted_items[1].url
          /\ make_story_key(clustered[k].title) # make_story_key(posted_items[1].title)
          /\ ~is_duplicate_or_allowed_update(clustered[k], disk0.seen_urls,
                                             disk0.seen_story_keys, disk0.seen_titles)
          /\ InList(clustered[k].url, seen_urls)

\* The place of an item in a list without repetitions.
PlaceIn(list, it) == CHOOSE i \in 1..Len(list) : list[i] = it

\* C22, as stated: of two selected candidates with equal score the one whose
\* source has the lower priority index comes first, and for equal priority
\* index the one discovered first (the one that stands first in the
\* candidate list).
C22_Original ==
    sel_pc = "ranked" =>
        \A i, j \in 1..Len(sel_ranked) :
            (i < j /\ score_item(sel_ranked[i]) = score_item(sel_ranked[j])) =>
                \/ PriorityIndex(sel_ranked[i].source) < PriorityIndex(sel_ranked[j].source)
                \/ /\ PriorityIndex(sel_ranked[i].source) = PriorityIndex(sel_ranked[j].source)
                   /\ PlaceIn(sel_deduped, sel_ranked[i]) < PlaceIn(sel_deduped, sel_ranked[j])

====
